---- MODULE Spec2Model ----
(***************************************************************************)
(* Model of the OpenPGP smart-card signing session of                      *)
(* example_js_smart_card_client_app/src/background.js: the async function  *)
(* work(api) with its helpers getp, getData, extractFingerprints,          *)
(* createSignaturePackage and completeSignature.                           *)
(*                                                                         *)
(* A JavaScript async function runs without interruption from one await    *)
(* to the next.  Each action below is "the awaited promise settles and     *)
(* the code runs up to its next await", with the outcome of the awaited    *)
(* external call chosen by \E.                                             *)
(***************************************************************************)
EXTENDS Integers, Sequences, FiniteSets, TLC

(***************************************************************************)
(* Bounds of the model (not program constants).                            *)
(***************************************************************************)
\* longest data portion (before the status word) of a generated response
MaxDataLen == 2
\* number of responses with SW1 = 0x61 the transport gives in one session
MaxCont == 1
\* most filler bytes before, between and after the generated tag/length pairs
MaxPad == 2
\* longest generated rawSignature
MaxSigLen == 3

(***************************************************************************)
(* Program constants.                                                      *)
(***************************************************************************)
SW1_MORE == 97
SW1_OK == 144
SW2_OK == 0
FP_TAG == 197
FP_LEN == 60
KEYID_FROM == 12
KEYID_TO == 20
NUM_BITS == 2048
SIG_LEN_ADD == 258

SELECT_FILE_APDU == <<0, 164, 4, 0, 6, 210, 118, 0, 1, 36, 1, 0>>
GET_DATA_CARDHOLDER_APDU == <<0, 202, 0, 101, 0>>
GET_DATA_APPLICATION_RELATED_DATA_APDU == <<0, 202, 0, 110, 0>>
GET_DATA_URL_APDU == <<0, 202, 95, 80, 0>>
GET_DATA_DSC_APDU == <<0, 202, 0, 122, 0>>
VERIFY_APDU == <<0, 32, 0, 129>>
PSO_CDS_APDU == <<0, 42, 158, 154>>
RSA_SHA1_DIGEST_INFO ==
    <<48, 81, 48, 13, 6, 9, 96, 134, 72, 1, 101, 3, 4, 2, 3, 5, 0, 4, 64>>
GET_RESPONSE_APDU == <<0, 192, 0, 0, 0>>
\* 'Hello YubiKey!' as character codes (line 426)
MESSAGE == <<72, 101, 108, 108, 111, 32, 89, 117, 98, 105, 75, 101, 121, 33>>

(***************************************************************************)
(* Byte-array helpers.                                                     *)
(***************************************************************************)
\* Array.prototype.slice / TypedArray.prototype.slice index normalisation
RelIndex(k, len) ==
    IF k < 0 THEN (IF len + k < 0 THEN 0 ELSE len + k)
    ELSE (IF k > len THEN len ELSE k)

\* s.slice(start, end), 0-based, end exclusive, negative indices from the end
slice(s, start, end) ==
    LET a == RelIndex(start, Len(s))
        b == RelIndex(end, Len(s))
    IN  IF a >= b THEN <<>> ELSE SubSeq(s, a + 1, b)

\* s.slice(start)
sliceFrom(s, start) == slice(s, start, Len(s))

RECURSIVE concatenateUint8(_)
concatenateUint8(arrays) ==
    IF arrays = <<>> THEN <<>>
    ELSE Head(arrays) \o concatenateUint8(Tail(arrays))

\* DataView.setUint16(0, v): big-endian, modulo 2^16
uint16ToBytes(v) ==
    LET w == v % 65536 IN <<w \div 256, w % 256>>

\* DataView.setUint32(0, v): big-endian.  The values used are below 2^31 (the
\* model checker's integer range), so the reduction modulo 2^32 is the identity.
uint32ToBytes(v) ==
    <<v \div 16777216, ((v \div 65536) % 256), ((v \div 256) % 256), v % 256>>

(***************************************************************************)
(* getData: the branch taken on the two status bytes (lines 143-149).      *)
(* returnCode is result[1].slice(-2); a missing element is undefined and   *)
(* compares unequal to every number.                                       *)
(***************************************************************************)
\* a faulty variant of SWClass that ignores SW2; C2 must tell the two apart
SWClassFirstOnly(returnCode) ==
    IF Len(returnCode) >= 1 /\ returnCode[1] = SW1_MORE THEN "MoreData"
    ELSE IF ~(Len(returnCode) >= 1 /\ returnCode[1] = SW1_OK) THEN "Other"
    ELSE "Success"

\* a faulty variant of SWClass that asks for more data after every status
\* word but 90 00; C17 must tell the two apart
SWClassOtherAsMore(returnCode) ==
    IF ~(Len(returnCode) >= 2 /\ returnCode[1] = SW1_OK
                               /\ returnCode[2] = SW2_OK) THEN "MoreData"
    ELSE "Success"

SWClass(returnCode) ==
    IF Len(returnCode) >= 1 /\ returnCode[1] = SW1_MORE THEN "MoreData"
    ELSE IF ~(Len(returnCode) >= 2 /\ returnCode[1] = SW1_OK
                                   /\ returnCode[2] = SW2_OK) THEN "Other"
    ELSE "Success"

\* the data portion and the status bytes getData takes from a response
DataOf(resp) == slice(resp, 0, -2)
ReturnCodeOf(resp) == sliceFrom(resp, -2)

(***************************************************************************)
(* getData's recursion unwinding (lines 146-147, 150): every suspended     *)
(* call holds its own data portion; the innermost resumes first and each   *)
(* returns concatenateUint8(data, dataContinued).                          *)
(***************************************************************************)
\* a faulty variant of Unwind that appends in the wrong order; C1 must tell
\* the two apart
RECURSIVE UnwindReversed(_, _)
UnwindReversed(fr, ret) ==
    IF fr = <<>> THEN ret
    ELSE UnwindReversed(SubSeq(fr, 1, Len(fr) - 1),
                        concatenateUint8(<<ret, fr[Len(fr)]>>))

RECURSIVE Unwind(_, _)
Unwind(fr, ret) ==
    IF fr = <<>> THEN ret
    ELSE Unwind(SubSeq(fr, 1, Len(fr) - 1),
                concatenateUint8(<<fr[Len(fr)], ret>>))

(***************************************************************************)
(* parseDSC (lines 153-161): the logged signature counter, 0 when the      *)
(* response does not have the expected shape.                              *)
(***************************************************************************)
parseDSC(d) ==
    IF ~(Len(d) = 7 /\ d[3] = 147 /\ d[4] = 3) THEN 0
    ELSE d[7] + 256 * d[6] + 65536 * d[5]

(***************************************************************************)
(* utf8ToBytes (lines 172-200).  str is the sequence of UTF-16 code units  *)
(* of the PIN.  The first element pushed is str.length.  x | y is x + y    *)
(* here because the operands never share a set bit.                        *)
(***************************************************************************)
RECURSIVE utf8Push(_, _)
utf8Push(str, i) ==
    IF i >= Len(str) THEN <<>>
    ELSE LET charcode == str[i + 1] IN
         IF charcode < 128 THEN <<charcode>> \o utf8Push(str, i + 1)
         ELSE IF charcode < 2048 THEN
             <<192 + (charcode \div 64), 128 + (charcode % 64)>>
                 \o utf8Push(str, i + 1)
         ELSE IF charcode < 55296 \/ charcode >= 57344 THEN
             <<224 + (charcode \div 4096), 128 + ((charcode \div 64) % 64),
               128 + (charcode % 64)>> \o utf8Push(str, i + 1)
         ELSE
             \* surrogate pair; charCodeAt past the end is NaN and NaN & 0x3ff = 0
             LET low == IF i + 1 < Len(str) THEN str[i + 2] ELSE 0
                 cp == 65536 + (charcode % 1024) * 1024 + (low % 1024)
             IN  <<240 + (cp \div 262144), 128 + ((cp \div 4096) % 64),
                   128 + ((cp \div 64) % 64), 128 + (cp % 64)>>
                     \o utf8Push(str, i + 2)

utf8ToBytes(str) == <<Len(str) % 256>> \o utf8Push(str, 0)

(***************************************************************************)
(* extractFingerprints (lines 228-246): the first position i with          *)
(* applicationData[i] = 0xC5 and applicationData[i+1] = 60 wins; the       *)
(* result is applicationData.slice(i + 2, i + 62), or [] when there is     *)
(* none.  Indices are 0-based as in the source.                            *)
(***************************************************************************)
\* one pass of the loop body (lines 230-239) for index i
fingerprintStep(applicationData, i, fingerprintIndex) ==
    IF /\ applicationData[i + 1] = FP_TAG
       /\ i + 1 < Len(applicationData)
       /\ applicationData[i + 2] = FP_LEN
       /\ fingerprintIndex = -1
    THEN i + 2
    ELSE fingerprintIndex

\* the passes for i = from, ..., to - 1 in that order.  A pass changes
\* fingerprintIndex only while it is -1 (line 232), so the passes after a hit
\* leave it alone; the range is split in halves to keep the nesting shallow.
RECURSIVE fingerprintScan(_, _, _, _)
fingerprintScan(applicationData, from, to, fingerprintIndex) ==
    IF from >= to THEN fingerprintIndex
    ELSE IF to = from + 1
         THEN fingerprintStep(applicationData, from, fingerprintIndex)
         ELSE LET mid == (from + to) \div 2
                  firstHalf == fingerprintScan(applicationData, from, mid,
                                               fingerprintIndex)
              IN  IF firstHalf # -1 THEN firstHalf
                  ELSE fingerprintScan(applicationData, mid, to, firstHalf)

extractFingerprints(applicationData) ==
    LET fingerprintIndex ==
            fingerprintScan(applicationData, 0, Len(applicationData), -1)
    IN  IF fingerprintIndex = -1 THEN <<>>
        ELSE slice(applicationData, fingerprintIndex, fingerprintIndex + FP_LEN)

(***************************************************************************)
(* goog.crypt.Sha512 is a library outside the repository; the model only   *)
(* needs a 64-byte value that is a function of the bytes hashed.           *)
(***************************************************************************)
RECURSIVE ByteSum(_, _)
ByteSum(s, n) == IF n = 0 THEN 0 ELSE (s[n] + ByteSum(s, n - 1)) % 256

DigestFrom(sum) == [i \in 1..64 |-> (31 * sum + 7 * i) % 256]

Sha512(input) == DigestFrom(ByteSum(input, Len(input)))

(***************************************************************************)
(* createSignaturePackage (lines 250-304); time is                         *)
(* Math.floor(Date.now() / 1000).  Returns <<packet draft, hashBytes>>.    *)
(***************************************************************************)
hashedPartOf(time) ==
    concatenateUint8(<< <<4, 0, 1, 10>>, <<0, 6>>, <<5, 2>>, uint32ToBytes(time) >>)

createSignaturePackage(msg, issuerBytes, time) ==
    LET hashedPart == hashedPartOf(time)
        hashBytes == Sha512(msg \o hashedPart)
        unhashedPart == concatenateUint8(
            << <<0, 10>>, <<9, 16>>, issuerBytes, sliceFrom(hashBytes, -2) >>)
        packetBody == concatenateUint8(<<hashedPart, unhashedPart>>)
        packetHeader == concatenateUint8(
            << <<137>>, uint16ToBytes(Len(packetBody) + SIG_LEN_ADD) >>)
    IN  << concatenateUint8(<<packetHeader, packetBody>>), hashBytes >>

(***************************************************************************)
(* completeSignature (lines 306-337): numBits goes down by one for every   *)
(* unset bit tested; the first set bit leaves the loop.                    *)
(***************************************************************************)
\* a faulty variant of UnsetBitsBeforeBreak that decrements before testing a
\* bit; C15 must tell the two apart
UnsetBitsCountingBreak(b) ==
    IF b >= 128 THEN 1 ELSE IF b >= 64 THEN 2 ELSE IF b >= 32 THEN 3
    ELSE IF b >= 16 THEN 4 ELSE IF b >= 8 THEN 5 ELSE IF b >= 4 THEN 6
    ELSE IF b >= 2 THEN 7 ELSE 8

UnsetBitsBeforeBreak(b) ==
    IF b >= 128 THEN 0 ELSE IF b >= 64 THEN 1 ELSE IF b >= 32 THEN 2
    ELSE IF b >= 16 THEN 3 ELSE IF b >= 8 THEN 4 ELSE IF b >= 4 THEN 5
    ELSE IF b >= 2 THEN 6 ELSE IF b >= 1 THEN 7 ELSE 8

\* a faulty variant of numBitsLoop whose break leaves only the tests of one
\* byte; C14 must tell the two apart
RECURSIVE numBitsLoopContinuing(_, _, _)
numBitsLoopContinuing(rawSignature, i, numBits) ==
    IF i >= Len(rawSignature) THEN numBits
    ELSE numBitsLoopContinuing(rawSignature, i + 1,
             numBits - UnsetBitsBeforeBreak(rawSignature[i + 1]))

RECURSIVE numBitsLoop(_, _, _)
numBitsLoop(rawSignature, i, numBits) ==
    IF i >= Len(rawSignature) THEN numBits
    ELSE LET z == UnsetBitsBeforeBreak(rawSignature[i + 1])
         IN  IF z < 8 THEN numBits - z
             ELSE numBitsLoop(rawSignature, i + 1, numBits - 8)

\* a faulty variant of completeSignature that drops the leading zero bytes of
\* rawSignature; C16 must tell the two apart
RECURSIVE completeSignatureTrimmed(_, _)
completeSignatureTrimmed(packet, rawSignature) ==
    IF rawSignature # <<>> /\ Head(rawSignature) = 0
    THEN completeSignatureTrimmed(packet, Tail(rawSignature))
    ELSE concatenateUint8(
             <<packet, uint16ToBytes(numBitsLoop(rawSignature, 0, NUM_BITS)),
               rawSignature>>)

completeSignature(packet, rawSignature) ==
    concatenateUint8(
        <<packet, uint16ToBytes(numBitsLoop(rawSignature, 0, NUM_BITS)),
          rawSignature>>)

(***************************************************************************)
(* The sign command of work (lines 428-432).                               *)
(***************************************************************************)
\* a faulty variant of signCommandOf whose length byte counts the closing
\* 00 as well; C22 must tell the two apart
signCommandOfLongLc(hashBytes) ==
    LET digestInfo == concatenateUint8(<<RSA_SHA1_DIGEST_INFO, hashBytes>>)
    IN  concatenateUint8(
            <<PSO_CDS_APDU, <<(Len(digestInfo) + 1) % 256>>, digestInfo, <<0>> >>)

signCommandOf(hashBytes) ==
    LET digestInfo == concatenateUint8(<<RSA_SHA1_DIGEST_INFO, hashBytes>>)
    IN  concatenateUint8(
            <<PSO_CDS_APDU, <<Len(digestInfo) % 256>>, digestInfo, <<0>> >>)

(***************************************************************************)
(* State.                                                                  *)
(***************************************************************************)
VARIABLES
    pc,           \* the await work (or logPcscError) is suspended at
    sent,         \* the requests work and logPcscError issued, in order
                  \* (getData's get-response commands are counted in
                  \* contSent and nCont instead)
    lastSent,     \* the request issued last, get-response included
    contSent,     \* get-response commands getData issued for the command
                  \* work transmitted last
    nCont,        \* get-response commands issued in the whole session
    outstanding,  \* numbers of the requests issued and not yet settled
    lastOutcome,  \* how the last awaited request settled: ok, err, reject
    handled,      \* the values delivered to work's catch (line 449)
    frames,       \* data portions held by the suspended getData calls
    lastRx,       \* responses received for the command read last (history)
    data,         \* the value the last completed getData returned (line 150)
    signEnded,    \* the branch of lines 143-149 that ended the read of the
                  \* compute-digital-signature command (history)
    sCardHandle,  \* work's sCardHandle
    sigKeyId,     \* work's sigKeyId
    packet,       \* packageAndHash[0]
    signature,    \* work's signature
    output,       \* the signature whose base64 text line 448 prints
    fpInData,     \* what the application related data read at line 401
                  \* holds of a fingerprint block (history)
    fatalSeen,    \* a failed call, a select status word other than 90 00
                  \* or a failed PIN prompt has been delivered (history)
    arg,          \* input of the pure function under test
    res,          \* its result
    applied       \* whether it has been applied

ctlVars == <<pc, sent, lastSent, contSent, nCont, outstanding, lastOutcome, handled>>
getDataVars == <<frames, lastRx, data, signEnded>>
workVars == <<sCardHandle, sigKeyId, packet, signature, output, fpInData>>
sessionVars == <<ctlVars, getDataVars, workVars, fatalSeen>>
fnVars == <<arg, res, applied>>
vars == <<sessionVars, fnVars>>

(***************************************************************************)
(* What the external collaborators may answer.                             *)
(***************************************************************************)
\* a data portion of k bytes, each of value k
Portion(k) == [i \in 1..k |-> k]
Portions == {Portion(k) : k \in 0..MaxDataLen}
StatusWords == {<<144, 0>>, <<97, 5>>, <<106, 130>>}
\* responses shorter than a status word, and one whose data reads 90 00
OddResponses == {<<>>, <<97>>, <<144>>, <<144, 0, 106, 130>>}

\* application related data holding one complete fingerprint block
FixtureAppData ==
    <<110, 64, FP_TAG, FP_LEN>> \o [i \in 1..FP_LEN |-> i] \o <<144, 0>>

Responses ==
    OddResponses \cup {d \o sw : d \in Portions, sw \in StatusWords}
                 \cup {FixtureAppData}

TransmitOutcomes ==
    {[kind |-> k, resp |-> <<>>] : k \in {"err", "reject"}}
        \cup {[kind |-> "ok", resp |-> r] : r \in Responses}

Kinds == {"ok", "err", "reject"}
ReaderLists == {<<>>, <<"reader">>}
\* PINs as UTF-16 code units: "12" and "e with acute accent"
Pins == {<<49, 50>>, <<233>>}
Times == {1478433600}

(***************************************************************************)
(* What a blob read from the card holds, told without the scanner: the     *)
(* positions of the pair C5 3C, those followed by a whole 60-byte value,   *)
(* and the first whole block.                                              *)
(***************************************************************************)
\* positions (0-based) of a tag/length pair
TagPairs(blob) ==
    {i \in 0..(Len(blob) - 2) : blob[i + 1] = 197 /\ blob[i + 2] = 60}

\* positions (0-based) of a tag/length pair followed by at least 60 bytes
FullMatches(blob) ==
    {i \in 0..(Len(blob) - 62) : blob[i + 1] = 197 /\ blob[i + 2] = 60}

NoAppData == [found |-> "unread", block |-> <<>>]

BlockIn(blob) ==
    IF TagPairs(blob) = {} THEN [found |-> "absent", block |-> <<>>]
    ELSE IF FullMatches(blob) = {} THEN [found |-> "truncated", block |-> <<>>]
    ELSE LET i == CHOOSE m \in FullMatches(blob) :
                      \A n \in FullMatches(blob) : m <= n
         IN  [found |-> "complete", block |-> SubSeq(blob, i + 3, i + 62)]

\* the transport answers with SW1 = 0x61 as getData reads it
AnnouncesMore(resp) ==
    Len(resp) >= 1 /\ resp[Len(resp) - (IF Len(resp) >= 2 THEN 1 ELSE 0)] = SW1_MORE

(***************************************************************************)
(* Init: the state when contextInitializedListener is about to call work.  *)
(***************************************************************************)
NoRequest == [api |-> "none", apdu |-> <<>>]

SessionInit ==
    /\ pc = "init"
    /\ sent = <<>>
    /\ lastSent = NoRequest
    /\ contSent = 0
    /\ nCont = 0
    /\ outstanding = {}
    /\ lastOutcome = "none"
    /\ handled = <<>>
    /\ frames = <<>>
    /\ lastRx = <<>>
    /\ data = <<>>
    /\ signEnded = "unread"
    /\ sCardHandle = "unset"
    /\ sigKeyId = <<>>
    /\ packet = <<>>
    /\ signature = <<>>
    /\ output = <<>>
    /\ fpInData = NoAppData
    /\ fatalSeen = FALSE

FnIdle == arg = <<>> /\ res = <<>> /\ applied = FALSE

Init == SessionInit /\ FnIdle

(***************************************************************************)
(* await: the code resumes only when the request it issued last has        *)
(* settled; issuing a request adds it to the outstanding ones.             *)
(***************************************************************************)
NIssued == Len(sent) + nCont

\* a faulty variant of AwaitDone that issues without awaiting; C9 must tell
\* the two apart
AwaitSkipped == outstanding

AwaitDone == outstanding \ {NIssued}

Issue(api, apdu) ==
    /\ sent' = Append(sent, [api |-> api, apdu |-> apdu])
    /\ lastSent' = [api |-> api, apdu |-> apdu]
    /\ outstanding' = AwaitDone \cup {NIssued + 1}
    /\ nCont' = nCont

\* a request of work that is not a transmit
Call(api) ==
    /\ Issue(api, <<>>)
    /\ contSent' = contSent

\* transmit(apduBytes) called by work (lines 380-381)
Transmit(apdu) ==
    /\ Issue("SCardTransmit", apdu)
    /\ contSent' = 0

\* transmit(GET_RESPONSE_APDU) called by getData (line 145)
TransmitGetResponse ==
    /\ sent' = sent
    /\ lastSent' = [api |-> "SCardTransmit", apdu |-> GET_RESPONSE_APDU]
    /\ outstanding' = AwaitDone \cup {NIssued + 1}
    /\ nCont' = nCont + 1
    /\ contSent' = contSent + 1

NoIssue ==
    /\ outstanding' = AwaitDone
    /\ UNCHANGED <<sent, lastSent, contSent, nCont>>

\* a faulty variant of Fail in which work's catch is not reached; C4 must
\* tell the two apart
FailUncaught(error) ==
    /\ handled' = handled
    /\ pc' = "done"
    /\ outstanding' = outstanding \ {Len(sent) + nCont}
    /\ UNCHANGED <<sent, lastSent, contSent, nCont>>

\* work's catch (lines 449-452) and logPcscError up to its await (455-458)
Fail(error) ==
    /\ handled' = Append(handled, error)
    /\ pc' = "logPcscError"
    /\ Call("pcsc_stringify_error")

\* a return out of work (lines 387, 413) or its normal end (line 448)
Return ==
    /\ pc' = "done"
    /\ NoIssue
    /\ UNCHANGED handled

(***************************************************************************)
(* work, lines 364-381: the PC/SC calls before the first applet command.   *)
(* getp (lines 127-131): a rejected request promise rejects getp, so the   *)
(* await throws into work's catch; an error reported through result.get's  *)
(* error callback is caught inside getp, logged, and getp resolves to      *)
(* undefined.                                                              *)
(***************************************************************************)
\* a faulty variant of getpRejects in which an error result rejects too;
\* C19 must tell the two apart
getpRejectsOnError(kind) == kind # "ok"

\* getp rejects only when the request promise rejects (lines 127-131)
getpRejects(kind) == kind = "reject"

workStart ==
    /\ pc = "init"
    /\ pc' = "SCardEstablishContext"
    /\ Call("SCardEstablishContext")
    /\ UNCHANGED <<lastOutcome, handled, getDataVars, workVars, fatalSeen, fnVars>>

\* sCardContext is undefined after an error result; the next call is made
afterEstablishContext ==
    /\ pc = "SCardEstablishContext"
    /\ \E kind \in Kinds :
        /\ lastOutcome' = kind
        /\ fatalSeen' = (fatalSeen \/ kind # "ok")
        /\ \/ /\ getpRejects(kind)
              /\ Fail("pcscError")
           \/ /\ ~getpRejects(kind)
              /\ pc' = "SCardIsValidContext"
              /\ Call("SCardIsValidContext")
              /\ UNCHANGED handled
    /\ UNCHANGED <<getDataVars, workVars, fnVars>>

afterIsValidContext ==
    /\ pc = "SCardIsValidContext"
    /\ \E kind \in Kinds :
        /\ lastOutcome' = kind
        /\ fatalSeen' = (fatalSeen \/ kind # "ok")
        /\ \/ /\ getpRejects(kind)
              /\ Fail("pcscError")
           \/ /\ ~getpRejects(kind)
              /\ pc' = "SCardListReaders"
              /\ Call("SCardListReaders")
              /\ UNCHANGED handled
    /\ UNCHANGED <<getDataVars, workVars, fnVars>>

\* readers[0] of undefined throws a TypeError; readers[0] of [] is undefined
afterListReaders ==
    /\ pc = "SCardListReaders"
    /\ \E kind \in Kinds, readers \in ReaderLists :
        /\ lastOutcome' = kind
        /\ fatalSeen' = (fatalSeen \/ kind # "ok")
        /\ \/ /\ kind = "reject"
              /\ Fail("pcscError")
           \/ /\ kind = "err"
              /\ Fail("TypeError")
           \/ /\ kind = "ok"
              /\ pc' = "SCardConnect"
              /\ Call("SCardConnect")
              /\ UNCHANGED handled
    /\ UNCHANGED <<getDataVars, workVars, fnVars>>

\* on success: sCardHandle = result[0], then the select command (line 384)
afterConnect ==
    /\ pc = "SCardConnect"
    /\ \E kind \in Kinds :
        /\ lastOutcome' = kind
        /\ fatalSeen' = (fatalSeen \/ kind # "ok")
        /\ \/ /\ kind = "reject"
              /\ Fail("pcscError")
              /\ UNCHANGED sCardHandle
           \/ /\ kind = "err"
              /\ Fail("TypeError")
              /\ UNCHANGED sCardHandle
           \/ /\ kind = "ok"
              /\ sCardHandle' = "handle"
              /\ pc' = "select"
              /\ Transmit(SELECT_FILE_APDU)
              /\ UNCHANGED handled
    /\ UNCHANGED <<getDataVars, sigKeyId, packet, signature, output, fpInData, fnVars>>

(***************************************************************************)
(* work, lines 383-388: status is the whole response; the test reads its   *)
(* elements 0 and 1.                                                       *)
(***************************************************************************)
SelectAccepted(status) ==
    Len(status) >= 2 /\ status[1] = SW1_OK /\ status[2] = SW2_OK

afterSelect ==
    /\ pc = "select"
    /\ \E out \in TransmitOutcomes :
        /\ lastOutcome' = out.kind
        /\ fatalSeen' = (fatalSeen \/ out.kind # "ok"
                            \/ ReturnCodeOf(out.resp) # <<SW1_OK, SW2_OK>>)
        /\ \/ /\ out.kind = "reject"
              /\ Fail("pcscError")
              /\ lastRx' = <<>>
           \/ /\ out.kind = "err"
              /\ Fail("TypeError")
              /\ lastRx' = <<>>
           \/ /\ out.kind = "ok"
              /\ ~SelectAccepted(out.resp)
              /\ Return
              /\ lastRx' = <<out.resp>>
           \/ /\ out.kind = "ok"
              /\ SelectAccepted(out.resp)
              /\ pc' = "cardholder"
              /\ Transmit(GET_DATA_CARDHOLDER_APDU)
              /\ lastRx' = <<out.resp>>
              /\ UNCHANGED handled
    /\ UNCHANGED <<frames, data, signEnded, workVars, fnVars>>

(***************************************************************************)
(* work after a getData call returned ret, up to the next await.           *)
(***************************************************************************)
\* a faulty variant of NextApdu with two commands exchanged; C8 must tell
\* the two apart
NextApduSwapped(stage) ==
    IF stage = "cardholder" THEN GET_DATA_APPLICATION_RELATED_DATA_APDU
    ELSE IF stage = "url" THEN GET_DATA_URL_APDU
    ELSE GET_DATA_DSC_APDU

\* a faulty variant of NextApdu that sends the verify header again after the
\* verify read; C20 must tell the two apart
NextApduVerifyAgain(stage) ==
    IF stage = "cardholder" THEN GET_DATA_URL_APDU
    ELSE IF stage = "url" THEN GET_DATA_APPLICATION_RELATED_DATA_APDU
    ELSE IF stage = "verify" THEN VERIFY_APDU
    ELSE GET_DATA_DSC_APDU

\* the command work transmits next after reading the data of a stage
\* (lines 394, 400, 421, 440)
NextApdu(stage) ==
    IF stage = "cardholder" THEN GET_DATA_URL_APDU
    ELSE IF stage = "url" THEN GET_DATA_APPLICATION_RELATED_DATA_APDU
    ELSE GET_DATA_DSC_APDU

afterGetData(stage, ret) ==
    \/ /\ stage = "cardholder"                          \* lines 393-394
       /\ pc' = "url"
       /\ Transmit(NextApdu(stage))
       /\ UNCHANGED workVars
    \/ /\ stage = "url"                                 \* lines 396-400
       /\ pc' = "appdata"
       /\ Transmit(NextApdu(stage))
       /\ UNCHANGED workVars
    \/ /\ stage = "appdata"                             \* lines 402-409
       /\ sigKeyId' = slice(extractFingerprints(ret), KEYID_FROM, KEYID_TO)
       /\ pc' = "requestPin"
       /\ Call("requestPin")
       /\ fpInData' = BlockIn(ret)
       /\ UNCHANGED <<sCardHandle, packet, signature, output>>
    \/ /\ stage = "verify"                              \* line 421
       /\ pc' = "dsc1"
       /\ Transmit(NextApdu(stage))
       /\ UNCHANGED workVars
    \/ /\ stage = "dsc1"                                \* lines 423-433
       /\ \E time \in Times :
            LET packageAndHash == createSignaturePackage(MESSAGE, sigKeyId, time)
            IN  /\ packet' = packageAndHash[1]
                /\ Transmit(signCommandOf(packageAndHash[2]))
       /\ pc' = "sign"
       /\ UNCHANGED <<sCardHandle, sigKeyId, signature, output, fpInData>>
    \/ /\ stage = "sign"                                \* lines 435-440
       /\ signature' = completeSignature(packet, ret)
       /\ pc' = "dsc2"
       /\ Transmit(NextApdu(stage))
       /\ UNCHANGED <<sCardHandle, sigKeyId, packet, output, fpInData>>
    \/ /\ stage = "dsc2"                                \* lines 442-445
       /\ pc' = "SCardDisconnect"
       /\ Call("SCardDisconnect")
       /\ UNCHANGED workVars

(***************************************************************************)
(* An awaited transmit settles while work reads a command's data: the      *)
(* await of line 391/394/400/417/421/433/440 followed by getData, or the   *)
(* await of line 145 inside getData.  getData(undefined) throws a          *)
(* TypeError at line 140, which rejects every suspended getData call and   *)
(* reaches work's catch.  The transport answers SW1 = 0x61 at most MaxCont *)
(* times.                                                                  *)
(***************************************************************************)
getDataAwait(stage) ==
    /\ pc = stage
    /\ \E out \in TransmitOutcomes :
        /\ (out.kind = "ok" /\ AnnouncesMore(out.resp)) => nCont < MaxCont
        /\ lastOutcome' = out.kind
        /\ fatalSeen' = (fatalSeen \/ out.kind # "ok")
        /\ \/ /\ out.kind = "reject"
              /\ Fail("pcscError")
              /\ frames' = <<>>
              /\ lastRx' = <<>>
              /\ UNCHANGED <<data, signEnded, workVars>>
           \/ /\ out.kind = "err"
              /\ Fail("TypeError")
              /\ frames' = <<>>
              /\ lastRx' = <<>>
              /\ UNCHANGED <<data, signEnded, workVars>>
           \/ /\ out.kind = "ok"
              /\ SWClass(ReturnCodeOf(out.resp)) = "MoreData"
              /\ frames' = Append(frames, DataOf(out.resp))
              /\ lastRx' = (IF frames = <<>> THEN <<out.resp>>
                            ELSE Append(lastRx, out.resp))
              /\ pc' = stage
              /\ TransmitGetResponse
              /\ UNCHANGED <<data, signEnded, handled, workVars>>
           \/ /\ out.kind = "ok"
              /\ SWClass(ReturnCodeOf(out.resp)) # "MoreData"
              /\ frames' = <<>>
              /\ lastRx' = (IF frames = <<>> THEN <<out.resp>>
                            ELSE Append(lastRx, out.resp))
              /\ data' = Unwind(frames, DataOf(out.resp))
              /\ signEnded' = (IF stage = "sign"
                               THEN SWClass(ReturnCodeOf(out.resp))
                               ELSE signEnded)
              /\ afterGetData(stage, Unwind(frames, DataOf(out.resp)))
              /\ UNCHANGED handled
    /\ UNCHANGED fnVars

afterCardholder == getDataAwait("cardholder")
afterUrl == getDataAwait("url")
afterAppData == getDataAwait("appdata")
afterVerify == getDataAwait("verify")
afterDsc1 == getDataAwait("dsc1")
afterSign == getDataAwait("sign")
afterDsc2 == getDataAwait("dsc2")

(***************************************************************************)
(* work, lines 406-417: the PIN prompt.                                    *)
(***************************************************************************)
\* a faulty variant of pinDialogFailed that goes on to verify; C7 must tell
\* the two apart
pinDialogFailedContinues ==
    /\ lastOutcome' = "reject"
    /\ fatalSeen' = TRUE
    /\ Transmit(concatenateUint8(<<VERIFY_APDU, <<>> >>))
    /\ pc' = "verify"
    /\ UNCHANGED handled

\* the catch of lines 411-414: log and return
pinDialogFailed ==
    /\ lastOutcome' = "reject"
    /\ fatalSeen' = TRUE
    /\ Return

afterRequestPin ==
    /\ pc = "requestPin"
    /\ \/ /\ \E pin \in Pins :
                Transmit(concatenateUint8(<<VERIFY_APDU, utf8ToBytes(pin)>>))
          /\ lastOutcome' = "ok"
          /\ pc' = "verify"
          /\ UNCHANGED <<handled, fatalSeen>>
       \/ pinDialogFailed
    /\ UNCHANGED <<getDataVars, workVars, fnVars>>

(***************************************************************************)
(* work, lines 444-448.                                                    *)
(***************************************************************************)
afterDisconnect ==
    /\ pc = "SCardDisconnect"
    /\ \E kind \in Kinds :
        /\ lastOutcome' = kind
        /\ fatalSeen' = (fatalSeen \/ kind # "ok")
        /\ \/ /\ getpRejects(kind)
              /\ Fail("pcscError")
           \/ /\ ~getpRejects(kind)
              /\ pc' = "SCardReleaseContext"
              /\ Call("SCardReleaseContext")
              /\ UNCHANGED handled
    /\ UNCHANGED <<getDataVars, workVars, fnVars>>

afterReleaseContext ==
    /\ pc = "SCardReleaseContext"
    /\ \E kind \in Kinds :
        /\ lastOutcome' = kind
        /\ fatalSeen' = (fatalSeen \/ kind # "ok")
        /\ \/ /\ getpRejects(kind)
              /\ Fail("pcscError")
              /\ UNCHANGED output
           \/ /\ ~getpRejects(kind)
              /\ output' = <<signature>>
              /\ Return
    /\ UNCHANGED <<getDataVars, sCardHandle, sigKeyId, packet, signature, fpInData, fnVars>>

(***************************************************************************)
(* logPcscError, lines 458-462: both outcomes of the await end it.         *)
(***************************************************************************)
afterStringifyError ==
    /\ pc = "logPcscError"
    /\ \E kind \in {"ok", "reject"} : lastOutcome' = kind
    /\ Return
    /\ UNCHANGED <<getDataVars, workVars, fatalSeen, fnVars>>

Next ==
    \/ workStart
    \/ afterEstablishContext
    \/ afterIsValidContext
    \/ afterListReaders
    \/ afterConnect
    \/ afterSelect
    \/ afterCardholder
    \/ afterUrl
    \/ afterAppData
    \/ afterRequestPin
    \/ afterVerify
    \/ afterDsc1
    \/ afterSign
    \/ afterDsc2
    \/ afterDisconnect
    \/ afterReleaseContext
    \/ afterStringifyError

Spec == Init /\ [][Next]_vars

(***************************************************************************)
(* getData's status-word branch on its own: one response, classified once. *)
(* The responses are every pair of bytes, alone or after one data byte.    *)
(***************************************************************************)
Bytes == 0..255

InitSW ==
    /\ SessionInit
    /\ \E prefix \in {<<>>, <<7>>}, sw1 \in Bytes, sw2 \in Bytes :
          arg = prefix \o <<sw1, sw2>>
    /\ res = <<>>
    /\ applied = FALSE

getDataClassify ==
    /\ ~applied
    /\ res' = <<SWClass(ReturnCodeOf(arg))>>
    /\ applied' = TRUE
    /\ UNCHANGED <<arg, sessionVars>>

NextSW == getDataClassify

SpecSW == InitSW /\ [][NextSW]_vars

(***************************************************************************)
(* extractFingerprints on its own.  A blob is filler, a first tag/length   *)
(* pair or a near miss, a run of bytes, a second pair or near miss, and a  *)
(* last run; the runs are short or about as long as the 60-byte field.     *)
(***************************************************************************)
Fill(n) == [i \in 1..n |-> i]

Markers == {<<>>, <<FP_TAG, FP_LEN>>, <<FP_TAG, FP_LEN - 1>>, <<FP_TAG>>}

RunLengths == (0..MaxPad) \cup ((FP_LEN - 1)..(FP_LEN + MaxPad - 1))

InitFP ==
    /\ SessionInit
    /\ \E a \in 0..MaxPad, m1 \in Markers, b \in RunLengths,
          m2 \in Markers, c \in RunLengths :
          arg = Fill(a) \o m1 \o Fill(b) \o m2 \o Fill(c)
    /\ res = <<>>
    /\ applied = FALSE

callExtractFingerprints ==
    /\ ~applied
    /\ res' = extractFingerprints(arg)
    /\ applied' = TRUE
    /\ UNCHANGED <<arg, sessionVars>>

NextFP == callExtractFingerprints

SpecFP == InitFP /\ [][NextFP]_vars

(***************************************************************************)
(* completeSignature on its own: arg is <<packet, rawSignature>>.  The     *)
(* packets are the empty one, a one-byte one and a draft built by          *)
(* createSignaturePackage; the bytes of rawSignature are 0, every single   *)
(* bit, 0x7F and 0xFF.                                                     *)
(***************************************************************************)
SigBytes == {0, 1, 2, 4, 8, 16, 32, 64, 128, 127, 255}

RECURSIVE SeqsUpTo(_, _)
SeqsUpTo(S, n) ==
    IF n = 0 THEN {<<>>}
    ELSE SeqsUpTo(S, n - 1)
            \cup {Append(q, x) : q \in {r \in SeqsUpTo(S, n - 1) : Len(r) = n - 1},
                                 x \in S}

Drafts ==
    {<<>>, <<9>>,
     createSignaturePackage(MESSAGE, <<13, 14, 15, 16, 17, 18, 19, 20>>,
                            1478433600)[1]}

InitCS ==
    /\ SessionInit
    /\ \E draft \in Drafts, rawSignature \in SeqsUpTo(SigBytes, MaxSigLen) :
          arg = <<draft, rawSignature>>
    /\ res = <<>>
    /\ applied = FALSE

callCompleteSignature ==
    /\ ~applied
    /\ res' = completeSignature(arg[1], arg[2])
    /\ applied' = TRUE
    /\ UNCHANGED <<arg, sessionVars>>

NextCS == callCompleteSignature

SpecCS == InitCS /\ [][NextCS]_vars

(***************************************************************************)
(* Vocabulary of the properties.                                           *)
(***************************************************************************)
GetDataStages == {"cardholder", "url", "appdata", "verify", "dsc1", "sign", "dsc2"}
TransmitStages == {"select"} \cup GetDataStages

Last(s) == s[Len(s)]

\* a response of at least two bytes whose status word is (sw1, sw2)
HasSW(resp, sw1, sw2) ==
    Len(resp) >= 2 /\ resp[Len(resp) - 1] = sw1 /\ resp[Len(resp)] = sw2
HasSW1(resp, sw1) == Len(resp) >= 2 /\ resp[Len(resp) - 1] = sw1

\* each response minus its last two bytes, concatenated in the order received
RECURSIVE PortionsInOrder(_)
PortionsInOrder(rx) ==
    IF rx = <<>> THEN <<>>
    ELSE SubSeq(Head(rx), 1, Len(Head(rx)) - 2) \o PortionsInOrder(Tail(rx))

GetResponseRequest == [api |-> "SCardTransmit", apdu |-> <<0, 192, 0, 0, 0>>]

\* the name of a transmitted applet command, read from its bytes
CommandName(apdu) ==
    IF apdu = <<0, 164, 4, 0, 6, 210, 118, 0, 1, 36, 1, 0>> THEN "select-applet"
    ELSE IF apdu = <<0, 202, 0, 101, 0>> THEN "get-cardholder-data"
    ELSE IF apdu = <<0, 202, 95, 80, 0>> THEN "get-url"
    ELSE IF apdu = <<0, 202, 0, 110, 0>> THEN "get-application-related-data"
    ELSE IF apdu = <<0, 202, 0, 122, 0>> THEN "get-signature-counter"
    ELSE IF SubSeq(apdu, 1, 4) = <<0, 32, 0, 129>> THEN "verify-pin"
    ELSE IF SubSeq(apdu, 1, 4) = <<0, 42, 158, 154>> THEN "compute-digital-signature"
    ELSE "other"

FixedOrder ==
    <<"select-applet", "get-cardholder-data", "get-url",
      "get-application-related-data", "verify-pin", "get-signature-counter",
      "compute-digital-signature", "get-signature-counter">>

TransmitIndices(s) == {i \in 1..Len(s) : s[i].api = "SCardTransmit"}
CallIndices(s, api) == {i \in 1..Len(s) : s[i].api = api}

IsTransmit(request) == request.api = "SCardTransmit"

\* the names of the applet commands among the requests s, in the order issued
AppletCommands(s) ==
    LET t == SelectSeq(s, IsTransmit)
    IN  [i \in 1..Len(t) |-> CommandName(t[i].apdu)]

IsPrefix(s, t) == Len(s) <= Len(t) /\ s = SubSeq(t, 1, Len(s))

StageRank(p) ==
    CASE p = "init" -> 0
      [] p = "SCardEstablishContext" -> 1
      [] p = "SCardIsValidContext" -> 2
      [] p = "SCardListReaders" -> 3
      [] p = "SCardConnect" -> 4
      [] p = "select" -> 5
      [] p = "cardholder" -> 6
      [] p = "url" -> 7
      [] p = "appdata" -> 8
      [] p = "requestPin" -> 9
      [] p = "verify" -> 10
      [] p = "dsc1" -> 11
      [] p = "sign" -> 12
      [] p = "dsc2" -> 13
      [] p = "SCardDisconnect" -> 14
      [] p = "SCardReleaseContext" -> 15
      [] p = "logPcscError" -> 16
      [] p = "done" -> 17

\* nothing is transmitted or requested in this step
NothingIssued == sent' = sent /\ nCont' = nCont /\ lastSent' = lastSent

(***************************************************************************)
(* C1: while getData reads a command whose responses all carry a status    *)
(* word, every response with SW1 = 0x61 is answered by exactly one         *)
(* get-response command (00 C0 00 00 00) issued in the step that receives  *)
(* it, so k such responses give k get-response commands; the first         *)
(* response with another status word ends the read with no further         *)
(* get-response, and getData returns the data portions of the k+1          *)
(* responses concatenated in the order received.  A get-response is        *)
(* issued in no other step.                                                *)
(***************************************************************************)
C1_ContinuationChain ==
    [][ /\ ( /\ pc \in GetDataStages
             /\ lastOutcome' = "ok"
             /\ \A i \in 1..Len(lastRx') : Len(lastRx'[i]) >= 2 )
           => IF HasSW1(Last(lastRx'), 97)
              THEN /\ lastSent' = GetResponseRequest
                   /\ contSent' = contSent + 1
                   /\ contSent' = Len(lastRx')
                   /\ nCont' = nCont + 1
                   /\ sent' = sent
                   /\ pc' = pc
              ELSE /\ contSent = Len(lastRx') - 1
                   /\ \A i \in 1..(Len(lastRx') - 1) : HasSW1(lastRx'[i], 97)
                   /\ nCont' = nCont
                   /\ lastSent' # GetResponseRequest
                   /\ data' = PortionsInOrder(lastRx')
        /\ (nCont' # nCont \/ (lastSent' = GetResponseRequest /\ lastSent # lastSent'))
           => ( /\ pc \in GetDataStages
                /\ lastOutcome' = "ok"
                /\ AnnouncesMore(Last(lastRx')) )
      ]_vars

\* a read of two responses, 01 61 05 then 02 02 90 00, returned 01 02 02
C1_Witness ==
    /\ pc = "url"
    /\ lastRx = << <<1, 97, 5>>, <<2, 2, 144, 0>> >>
    /\ data = <<1, 2, 2>>
    /\ nCont = 1

(***************************************************************************)
(* C3: when the select response arrives, work goes on to the next applet   *)
(* command exactly if the last two bytes of the response are 90 00;        *)
(* otherwise the session ends there with nothing more issued.              *)
(***************************************************************************)
C3_SelectByStatusWord ==
    [][ (pc = "select" /\ lastOutcome' = "ok")
        => IF HasSW(lastRx'[1], 144, 0)
           THEN pc' = "cardholder" /\ lastSent'.api = "SCardTransmit"
           ELSE pc' = "done" /\ NothingIssued
      ]_vars

(***************************************************************************)
(* C4: when a transmit fails (the request promise rejects or the result    *)
(* reports an error), the command is not sent again and no applet command  *)
(* follows; work's catch runs, for the first and only time, and the        *)
(* session ends after logPcscError.                                        *)
(***************************************************************************)
C4_TransmitFailureEndsSession ==
    [][ /\ (pc \in TransmitStages /\ lastOutcome' \in {"err", "reject"})
           => /\ handled = <<>>
              /\ Len(handled') = 1
              /\ pc' = "logPcscError"
              /\ nCont' = nCont
              /\ sent' = Append(sent, [api |-> "pcsc_stringify_error", apdu |-> <<>>])
        /\ pc = "logPcscError"
           => pc' = "done" /\ NothingIssued /\ handled' = handled
        /\ pc = "done" => UNCHANGED sessionVars
        /\ Len(handled') <= 1
      ]_vars

\* a get-response command's result reported an error; the session is over
C4_Witness ==
    /\ pc = "done"
    /\ handled = <<"TypeError">>
    /\ nCont = 1
    /\ contSent = 1
    /\ sent[Len(sent)].api = "pcsc_stringify_error"
    /\ sent[Len(sent) - 1].apdu = <<0, 202, 0, 122, 0>>

(***************************************************************************)
(* C5: SCardDisconnect is issued at most once in a session, and a session  *)
(* that obtained a card handle and was delivered no fatal condition (no    *)
(* failed call, select status word 90 00, PIN entered) ends with exactly   *)
(* one SCardDisconnect, issued after every applet command.                 *)
(***************************************************************************)
C5_DisconnectExactlyOnce ==
    /\ Cardinality(CallIndices(sent, "SCardDisconnect")) <= 1
    /\ (pc = "done" /\ sCardHandle = "handle" /\ ~fatalSeen)
       => /\ Cardinality(CallIndices(sent, "SCardDisconnect")) = 1
          /\ \A d \in CallIndices(sent, "SCardDisconnect") :
                \A t \in TransmitIndices(sent) : t < d

(***************************************************************************)
(* C6: a session that holds a card handle and ends after a fatal           *)
(* condition has issued SCardDisconnect.                                   *)
(***************************************************************************)
C6_DisconnectOnFatalEnd ==
    (pc = "done" /\ sCardHandle = "handle" /\ fatalSeen)
    => CallIndices(sent, "SCardDisconnect") # {}

(***************************************************************************)
(* C7: when the PIN prompt fails or is cancelled the session ends in that  *)
(* step: no verify-PIN, compute-digital-signature or signature-counter     *)
(* command has been or is transmitted, and no signature packet exists.     *)
(***************************************************************************)
C7_PinFailureEndsSession ==
    [][ /\ (pc = "requestPin" /\ lastOutcome' = "reject")
           => /\ pc' = "done"
              /\ NothingIssued
              /\ \A i \in TransmitIndices(sent') :
                    CommandName(sent'[i].apdu) \notin
                        {"verify-pin", "compute-digital-signature",
                         "get-signature-counter"}
              /\ packet' = <<>> /\ signature' = <<>> /\ output' = <<>>
        /\ pc = "done" => UNCHANGED sessionVars
      ]_vars

C7_Witness ==
    /\ pc = "done"
    /\ lastOutcome = "reject"
    /\ sent[Len(sent)].api = "requestPin"
    /\ signature = <<>>

(***************************************************************************)
(* C8: the applet commands work transmitted (get-response commands are     *)
(* not part of sent) are a prefix of the fixed order; the stage never      *)
(* moves backward; the PIN is requested only in the step in which the read *)
(* of the application related data returns.                                *)
(***************************************************************************)
C8_FixedCommandOrder ==
    [][ /\ IsPrefix(AppletCommands(sent'), FixedOrder)
        /\ StageRank(pc') >= StageRank(pc)
        /\ (sent' # sent /\ lastSent'.api = "requestPin")
           => /\ pc = "appdata"
              /\ frames' = <<>>
              /\ ~AnnouncesMore(Last(lastRx'))
              /\ CommandName(sent[Len(sent)].apdu) = "get-application-related-data"
      ]_vars

\* a session that transmitted all eight commands and printed the signature
C8_Witness ==
    /\ pc = "done"
    /\ output # <<>>
    /\ AppletCommands(sent) = FixedOrder
    /\ nCont = 1

(***************************************************************************)
(* C9: at most one external request is outstanding; a request is issued    *)
(* only in a step in which the one issued before it settles, one request   *)
(* per step, so nothing follows a request that never settles.              *)
(***************************************************************************)
C9_OneOutstandingRequest ==
    [][ /\ Cardinality(outstanding') <= 1
        /\ (NIssued' # NIssued)
           => /\ NIssued' = NIssued + 1
              /\ outstanding' = {NIssued'}
              /\ (pc # "init" => outstanding = {NIssued})
      ]_vars

\* the verify command is outstanding and nothing else
C9_Witness ==
    /\ pc = "verify"
    /\ outstanding = {NIssued}
    /\ CommandName(lastSent.apdu) = "verify-pin"

(***************************************************************************)
(* C2: for every response of at least two bytes, the class getData gives   *)
(* its last two bytes (SW1, SW2) is MoreData exactly when SW1 = 0x61,      *)
(* Success exactly when (SW1, SW2) = (0x90, 0x00) and Other exactly for    *)
(* every remaining pair; each of the 65536 pairs gets one class.           *)
(***************************************************************************)
C2_StatusWordPartition ==
    applied =>
        LET sw1 == arg[Len(arg) - 1]
            sw2 == arg[Len(arg)]
            class == res[1]
        IN  /\ Len(arg) >= 2 /\ Len(res) = 1
            /\ class \in {"MoreData", "Success", "Other"}
            /\ class = "MoreData" <=> sw1 = 97
            /\ class = "Success" <=> (sw1 = 144 /\ sw2 = 0)
            /\ class = "Other" <=> (sw1 # 97 /\ ~(sw1 = 144 /\ sw2 = 0))

\* 61 FF after a data byte is MoreData
C2_Witness == applied /\ arg = <<7, 97, 255>> /\ res = <<"MoreData">>

(***************************************************************************)
(* C10: for a blob with exactly one position i where blob[i] = 0xC5 and    *)
(* blob[i+1] = 60 are followed by at least 60 bytes, extractFingerprints   *)
(* returns blob[i+2 .. i+62); for a blob with no such position it returns  *)
(* the empty sequence.                                                     *)
(***************************************************************************)
C10_ExtractFingerprints ==
    applied =>
        /\ \A i \in FullMatches(arg) :
              FullMatches(arg) = {i} => res = SubSeq(arg, i + 3, i + 62)
        /\ FullMatches(arg) = {} => res = <<>>

\* the first position in a non-empty set of positions
MinOf(S) == CHOOSE m \in S : \A n \in S : m <= n

\* two tag/length pairs, each followed by its whole 60-byte value, the
\* second one after the value of the first
TwoDisjointBlocks(blob) ==
    \E i, j \in FullMatches(blob) : j >= i + 62

(***************************************************************************)
(* C11: for a blob with two or more non-overlapping matches of tag 0xC5    *)
(* and length 60, extractFingerprints gives an outcome that is no field    *)
(* value: not 60 bytes, and not the bytes of the first match.              *)
(***************************************************************************)
C11_AmbiguousIsNotAField ==
    (applied /\ TwoDisjointBlocks(arg))
    => /\ Len(res) # 60
       /\ res # SubSeq(arg, MinOf(FullMatches(arg)) + 3,
                       MinOf(FullMatches(arg)) + 62)

\* the KeyId of a signature packet draft: what lies between the issuer
\* subpacket header (ending at byte 19) and the two hash bytes at the end
KeyIdOf(draft) == SubSeq(draft, 20, Len(draft) - 2)

(***************************************************************************)
(* C12: when the application related data holds no fingerprint block (no   *)
(* tag 0xC5 with length 60), the compute-digital-signature command is not  *)
(* transmitted and no signature packet is built.                           *)
(***************************************************************************)
C12_NoSigningWithoutFingerprint ==
    fpInData.found = "absent"
    => /\ \A i \in 1..Len(AppletCommands(sent)) :
             AppletCommands(sent)[i] # "compute-digital-signature"
       /\ packet = <<>>

(***************************************************************************)
(* C13: whenever a signature packet is built, the KeyId in its issuer      *)
(* subpacket is 8 bytes long and equals bytes [12, 20) of the 60-byte      *)
(* fingerprint block of the application related data.                      *)
(***************************************************************************)
C13_KeyIdFromFingerprintBlock ==
    packet # <<>>
    => /\ Len(KeyIdOf(packet)) = 8
       /\ fpInData.found = "complete"
       /\ KeyIdOf(packet) = SubSeq(fpInData.block, 13, 20)

\* bit n (0 = the most significant bit of the first byte) of a byte sequence
BitAt(bytes, n) == (bytes[(n \div 8) + 1] \div (2 ^ (7 - (n % 8)))) % 2

\* the number of zero bits before the first set bit, all bits when none is set
LeadingZeroBits(bytes) ==
    LET set == {n \in 0..(8 * Len(bytes) - 1) : BitAt(bytes, n) = 1}
    IN  IF set = {} THEN 8 * Len(bytes) ELSE MinOf(set)

\* the two bit-length bytes of completeSignature's result, as a number
BitLengthField == res[Len(arg[1]) + 1] * 256 + res[Len(arg[1]) + 2]

(***************************************************************************)
(* C14: for every rawSignature the bit-length field completeSignature      *)
(* writes is 2048 minus the number of zero bits before the first set bit   *)
(* of rawSignature, read most significant bit first across all its bytes.  *)
(***************************************************************************)
C14_BitLengthCountsLeadingZeroBits ==
    applied => BitLengthField = 2048 - LeadingZeroBits(arg[2])

\* 00 00 20 has 18 leading zero bits: 2030 = 07 EE
C14_Witness ==
    /\ applied
    /\ arg[2] = <<0, 0, 32>>
    /\ SubSeq(res, Len(arg[1]) + 1, Len(arg[1]) + 2) = <<7, 238>>

(***************************************************************************)
(* C15: for a rawSignature that begins with 00 01 FF the bit-length field  *)
(* is 2033: the zero byte takes 8 bits off 2048 and the seven zero bits    *)
(* that lead the byte 01 take 7 more.                                      *)
(***************************************************************************)
C15_ZeroByteThenOne ==
    (applied /\ Len(arg[2]) >= 3 /\ SubSeq(arg[2], 1, 3) = <<0, 1, 255>>)
    => BitLengthField = 2033

\* 2033 = 07 F1
C15_Witness ==
    /\ applied
    /\ arg[2] = <<0, 1, 255>>
    /\ Len(arg[1]) = 29
    /\ SubSeq(res, 30, 31) = <<7, 241>>

\* the same input with the bit length 2039, i.e. the byte 01 taking one bit
C15_BitLength2039 ==
    (applied /\ Len(arg[2]) >= 3 /\ SubSeq(arg[2], 1, 3) = <<0, 1, 255>>)
    => BitLengthField = 2039

(***************************************************************************)
(* C16: completeSignature returns the draft, then exactly two bit-length   *)
(* bytes, then rawSignature byte for byte with its leading zero bytes.     *)
(***************************************************************************)
C16_DraftLengthSignature ==
    applied
    => /\ Len(res) = Len(arg[1]) + 2 + Len(arg[2])
       /\ SubSeq(res, 1, Len(arg[1])) = arg[1]
       /\ SubSeq(res, Len(arg[1]) + 3, Len(res)) = arg[2]

C16_Witness ==
    /\ applied
    /\ arg[2] = <<0, 0, 1>>
    /\ Len(arg[1]) = 29
    /\ Len(res) = 34
    /\ SubSeq(res, 32, 34) = <<0, 0, 1>>

\* the await work is suspended at after the read of a stage has returned
StageAfter(stage) ==
    CASE stage = "cardholder" -> "url"
      [] stage = "url" -> "appdata"
      [] stage = "appdata" -> "requestPin"
      [] stage = "verify" -> "dsc1"
      [] stage = "dsc1" -> "sign"
      [] stage = "sign" -> "dsc2"
      [] stage = "dsc2" -> "SCardDisconnect"

\* what a request asks for: the name of an applet command or of a call
RequestName(request) ==
    IF IsTransmit(request) THEN CommandName(request.apdu) ELSE request.api

\* the request that program order puts after the read of a stage
RequestAfter(stage) ==
    CASE stage = "cardholder" -> "get-url"
      [] stage = "url" -> "get-application-related-data"
      [] stage = "appdata" -> "requestPin"
      [] stage = "verify" -> "get-signature-counter"
      [] stage = "dsc1" -> "compute-digital-signature"
      [] stage = "sign" -> "get-signature-counter"
      [] stage = "dsc2" -> "SCardDisconnect"

\* a status word that is neither Success nor MoreData ends the response
HasOtherSW(resp) ==
    Len(resp) >= 2 /\ ~HasSW1(resp, 97) /\ ~HasSW(resp, 144, 0)

(***************************************************************************)
(* C17: when the read of a command ends with a status word that is neither *)
(* Success nor MoreData, getData returns the data gathered so far, no      *)
(* get-response and no second copy of the command is transmitted, work's   *)
(* catch is not entered, and work goes on with the request that program    *)
(* order puts next.                                                        *)
(***************************************************************************)
C17_OtherStatusContinues ==
    [][ ( /\ pc \in GetDataStages
          /\ lastOutcome' = "ok"
          /\ \A i \in 1..Len(lastRx') : Len(lastRx'[i]) >= 2
          /\ HasOtherSW(Last(lastRx')) )
        => /\ data' = PortionsInOrder(lastRx')
           /\ nCont' = nCont
           /\ lastSent' # GetResponseRequest
           /\ handled = <<>> /\ handled' = <<>>
           /\ pc' = StageAfter(pc)
           /\ sent' = Append(sent, lastSent')
           /\ RequestName(lastSent') = RequestAfter(pc)
           /\ outstanding' = {NIssued'}
      ]_vars

\* the url read ended with 6A 82 after one continuation: the data of both
\* responses was returned and the application related data is asked for
C17_Witness ==
    /\ pc = "appdata"
    /\ lastRx = << <<1, 97, 5>>, <<2, 2, 106, 130>> >>
    /\ data = <<1, 2, 2>>
    /\ handled = <<>>
    /\ lastSent = [api |-> "SCardTransmit", apdu |-> <<0, 202, 0, 110, 0>>]

\* the awaits of the PC/SC calls made before the first applet command
ConnectStages ==
    {"SCardEstablishContext", "SCardIsValidContext", "SCardListReaders",
     "SCardConnect"}

(***************************************************************************)
(* C18: when a call made before the first applet command fails, by a       *)
(* rejected promise or by an error result, the session is aborted: the     *)
(* only request that may still follow is logPcscError's                    *)
(* pcsc_stringify_error, and no PC/SC call or applet command is issued.    *)
(***************************************************************************)
C18_EarlyFailureAborts ==
    [][ /\ (pc \in ConnectStages /\ lastOutcome' \in {"err", "reject"})
           => /\ pc' \in {"logPcscError", "done"}
              /\ \/ NothingIssued
                 \/ /\ sent' = Append(sent, lastSent')
                    /\ lastSent'.api = "pcsc_stringify_error"
        /\ pc \in {"logPcscError", "done"} => NothingIssued
      ]_vars

(***************************************************************************)
(* C19: when SCardDisconnect reports an error through its result, work's   *)
(* catch is not entered, and the session goes on to release the context;   *)
(* when that call returns, the finished signature is printed.              *)
(***************************************************************************)
C19_DisconnectErrorNotFatal ==
    [][ /\ (pc = "SCardDisconnect" /\ lastOutcome' = "err")
           => /\ handled = <<>> /\ handled' = <<>>
              /\ pc' = "SCardReleaseContext"
              /\ sent' = Append(sent, [api |-> "SCardReleaseContext", apdu |-> <<>>])
              /\ Len(signature') >= 2
        /\ (pc = "SCardReleaseContext" /\ lastOutcome' = "ok")
           => /\ handled' = <<>>
              /\ output' = <<signature>>
              /\ Len(signature) >= 2
              /\ pc' = "done"
      ]_vars

\* SCardDisconnect reported an error and SCardReleaseContext is awaited
C19_Witness ==
    /\ pc = "SCardReleaseContext"
    /\ lastOutcome = "err"
    /\ handled = <<>>
    /\ lastSent.api = "SCardReleaseContext"
    /\ sent[Len(sent) - 1].api = "SCardDisconnect"
    /\ Len(signature) >= 2

(***************************************************************************)
(* C20: when the read of the verify-PIN command ends with a status word    *)
(* that is neither Success nor MoreData, work's catch is not entered and   *)
(* the signature counter is read next; when that read returns, the         *)
(* compute-digital-signature command is transmitted.                       *)
(***************************************************************************)
C20_VerifyFailureDoesNotAbort ==
    [][ /\ ( /\ pc = "verify"
             /\ lastOutcome' = "ok"
             /\ \A i \in 1..Len(lastRx') : Len(lastRx'[i]) >= 2
             /\ HasOtherSW(Last(lastRx')) )
           => /\ handled' = <<>>
              /\ pc' = "dsc1"
              /\ sent' = Append(sent, lastSent')
              /\ lastSent' = [api |-> "SCardTransmit", apdu |-> <<0, 202, 0, 122, 0>>]
        /\ ( /\ pc = "dsc1"
             /\ lastOutcome' = "ok"
             /\ ~AnnouncesMore(Last(lastRx')) )
           => /\ handled' = <<>>
              /\ pc' = "sign"
              /\ sent' = Append(sent, lastSent')
              /\ RequestName(lastSent') = "compute-digital-signature"
      ]_vars

\* verify ended with 6A 82 and the signature counter is being read
C20_Witness ==
    /\ pc = "dsc1"
    /\ lastRx = << <<106, 130>> >>
    /\ handled = <<>>
    /\ AppletCommands(sent) = SubSeq(FixedOrder, 1, 6)
    /\ lastSent = [api |-> "SCardTransmit", apdu |-> <<0, 202, 0, 122, 0>>]

\* the two-byte length field that follows the first byte of a packet
LengthFieldOf(pkt) == pkt[2] * 256 + pkt[3]

(***************************************************************************)
(* C21: the length field of the packet header equals the length of the     *)
(* hashed and unhashed parts plus 258, and in every final packet of the    *)
(* session it equals the number of bytes that follow the 3-byte header.    *)
(***************************************************************************)
C21_LengthFieldExact ==
    /\ packet # <<>> => LengthFieldOf(packet) = (Len(packet) - 3) + 258
    /\ signature # <<>> => LengthFieldOf(signature) = Len(signature) - 3

\* the compute-digital-signature commands among the requests issued
SignCommands ==
    {sent[i].apdu : i \in {j \in TransmitIndices(sent) :
                              CommandName(sent[j].apdu) = "compute-digital-signature"}}

(***************************************************************************)
(* C22: the compute-digital-signature command is 00 2A 9E 9A, one length   *)
(* byte, the 19-byte digest-info prefix, the 64-byte digest and 00; the    *)
(* length byte is 83, the number of body bytes; the digest is the digest   *)
(* of the message and the hashed part of the draft, the one whose last two *)
(* bytes end the draft.                                                    *)
(***************************************************************************)
C22_SignCommandLayout ==
    \A c \in SignCommands :
        /\ Len(c) = 89
        /\ SubSeq(c, 1, 4) = <<0, 42, 158, 154>>
        /\ c[5] = 83
        /\ c[5] = Len(SubSeq(c, 6, Len(c) - 1))
        /\ SubSeq(c, 6, 24) = <<48, 81, 48, 13, 6, 9, 96, 134, 72, 1, 101, 3, 4,
                               2, 3, 5, 0, 4, 64>>
        /\ c[89] = 0
        /\ Len(packet) >= 15
        /\ SubSeq(c, 25, 88) = Sha512(MESSAGE \o SubSeq(packet, 4, 15))
        /\ SubSeq(c, 87, 88) = SubSeq(packet, Len(packet) - 1, Len(packet))

\* the command is out and the draft holds the KeyId of the fixture block
C22_Witness ==
    /\ pc = "sign"
    /\ SignCommands # {}
    /\ lastSent.apdu \in SignCommands
    /\ Len(packet) = 29

(***************************************************************************)
(* C23: what extractFingerprints returns is either the empty not-found     *)
(* result or a field of exactly 60 bytes; a tag/length pair whose value    *)
(* would run past the end of the blob never gives a shorter field.         *)
(***************************************************************************)
C23_FieldHasSixtyBytes ==
    applied => (res = <<>> \/ Len(res) = 60)

(***************************************************************************)
(* C24: a final signature packet is built and printed only in a session    *)
(* whose compute-digital-signature command ended with the status word      *)
(* 90 00; when it ended with another status word, nothing is printed.      *)
(***************************************************************************)
C24_OutputOnlyAfterSuccessfulSign ==
    /\ signature # <<>> => signEnded = "Success"
    /\ output # <<>> => signEnded = "Success"

\* The verify-PIN commands handed to the reader during the session.
VerifyCommands ==
    {sent[i].apdu : i \in {j \in TransmitIndices(sent) :
                              CommandName(sent[j].apdu) = "verify-pin"}}

(***************************************************************************)
(* C25: every verify-PIN command transmitted is 00 20 00 81, one length    *)
(* byte and the UTF-8 bytes of the PIN, and the length byte equals the     *)
(* number of PIN bytes that follow it, also when the PIN holds characters  *)
(* outside ASCII.                                                          *)
(***************************************************************************)
C25_VerifyLengthByte ==
    \A c \in VerifyCommands :
        /\ Len(c) >= 5
        /\ SubSeq(c, 1, 4) = <<0, 32, 0, 129>>
        /\ c[5] = Len(c) - 5

(***************************************************************************)
(* C27: for every rawSignature, of any length from 0 upward, the 2-byte    *)
(* bit-length field of the completed packet lies in 0..2048 and equals the *)
(* minimal bit length of rawSignature read as an unsigned big-endian       *)
(* integer: 8 * len(rawSignature) minus its leading zero bits.             *)
(***************************************************************************)
C27_BitLengthIsMinimal ==
    applied =>
        /\ BitLengthField \in 0 .. 2048
        /\ BitLengthField = 8 * Len(arg[2]) - LeadingZeroBits(arg[2])

(***************************************************************************)
(* getData on its own, lines 139-151, reading one command against a        *)
(* transport that is free to answer SW1 = 0x61 without end.  Lines 143-147 *)
(* decide on the status word of the response alone: neither the number of  *)
(* get-response commands already sent nor the portions held by the         *)
(* suspended calls is read.  The commands are therefore counted up to      *)
(* MaxCont + 1 only and the last MaxCont portions and responses are kept,  *)
(* so that a read that never ends is a cycle of states.  The transport     *)
(* settles every request it is handed: weak fairness of the step.          *)
(***************************************************************************)
KeepLast(s, n) ==
    IF Len(s) <= n THEN s ELSE SubSeq(s, Len(s) - n + 1, Len(s))

CountUpTo(n, max) == IF n < max THEN n + 1 ELSE max

ReadCommands ==
    {<<"cardholder", GET_DATA_CARDHOLDER_APDU>>,
     <<"url", GET_DATA_URL_APDU>>,
     <<"appdata", GET_DATA_APPLICATION_RELATED_DATA_APDU>>,
     <<"dsc1", GET_DATA_DSC_APDU>>}

InitGD ==
    /\ \E c \in ReadCommands :
          /\ pc = c[1]
          /\ sent = <<[api |-> "SCardTransmit", apdu |-> c[2]]>>
          /\ lastSent = [api |-> "SCardTransmit", apdu |-> c[2]]
    /\ contSent = 0
    /\ nCont = 0
    /\ outstanding = {1}
    /\ lastOutcome = "none"
    /\ handled = <<>>
    /\ frames = <<>>
    /\ lastRx = <<>>
    /\ data = <<>>
    /\ signEnded = "unread"
    /\ sCardHandle = "handle"
    /\ sigKeyId = <<>>
    /\ packet = <<>>
    /\ signature = <<>>
    /\ output = <<>>
    /\ fpInData = NoAppData
    /\ fatalSeen = FALSE
    /\ FnIdle

\* the await of line 140 settles and getData runs to its next await
\* (line 145), to its return (line 150) or out of work by an exception
getDataResumed ==
    /\ pc \in {c[1] : c \in ReadCommands}
    /\ \E out \in TransmitOutcomes :
        /\ lastOutcome' = out.kind
        /\ fatalSeen' = (fatalSeen \/ out.kind # "ok")
        /\ \/ /\ out.kind # "ok"
              /\ handled' = Append(handled, IF out.kind = "reject"
                                            THEN "pcscError"
                                            ELSE "TypeError")
              /\ pc' = "done"
              /\ outstanding' = {}
              /\ frames' = <<>>
              /\ lastRx' = <<>>
              /\ UNCHANGED <<lastSent, contSent, nCont, data>>
           \/ /\ out.kind = "ok"
              /\ SWClass(ReturnCodeOf(out.resp)) = "MoreData"
              /\ frames' = KeepLast(Append(frames, DataOf(out.resp)), MaxCont)
              /\ lastRx' = KeepLast(Append(lastRx, out.resp), MaxCont)
              /\ pc' = pc
              /\ lastSent' = [api |-> "SCardTransmit",
                              apdu |-> GET_RESPONSE_APDU]
              /\ nCont' = CountUpTo(nCont, MaxCont + 1)
              /\ contSent' = CountUpTo(contSent, MaxCont + 1)
              /\ outstanding' = {Len(sent) + nCont' + 1}
              /\ UNCHANGED <<data, handled>>
           \/ /\ out.kind = "ok"
              /\ SWClass(ReturnCodeOf(out.resp)) # "MoreData"
              /\ frames' = <<>>
              /\ lastRx' = KeepLast(Append(lastRx, out.resp), MaxCont)
              /\ data' = Unwind(frames, DataOf(out.resp))
              /\ pc' = "done"
              /\ outstanding' = {}
              /\ UNCHANGED <<lastSent, contSent, nCont, handled>>
    /\ UNCHANGED <<sent, signEnded, workVars, fnVars>>

NextGD == getDataResumed

SpecGD == InitGD /\ [][NextGD]_vars /\ WF_vars(NextGD)

(***************************************************************************)
(* C26: the get-response commands issued for one command are bounded by a  *)
(* fixed maximum: getData comes to an end against every transport, also    *)
(* one that answers every get-response with SW1 = 0x61.                    *)
(***************************************************************************)
C26_GetDataTerminates == <>(pc = "done")

====
